---- MODULE Spec2Model ----
(***************************************************************************)
(* GFXFileManager (src/src/file_manager.rs): the safe proxy around the     *)
(* binary-only IFileManager object and its dispatch table.                 *)
(*                                                                         *)
(* The wrapper's state is the raw object pointer; everything else lives in *)
(* the native component, which is reached only through vtable_call!.  The  *)
(* native component is kept as a small abstract machine (container open    *)
(* flag, set of open file handles).  Every wrapper operation records the   *)
(* native calls it issued, in order, in `log`, and what it handed back to  *)
(* its caller in `ret`.                                                    *)
(***************************************************************************)
EXTENDS Integers, Sequences, FiniteSets, TLC

VARIABLES
    file_manager,   \* GFXFileManager::_file_manager, NULL or the object address
    phase,          \* "live" | "panicked" (unwinding) | "crashed" | "dropped"
    n_open,         \* native: a container is open
    n_files,        \* native: the file handles that are open
    n_next,         \* native: the next handle value it will issue
    files,          \* the File wrappers handed to the caller, in creation order
    log,            \* the native calls the latest operation issued, in order
    ret,            \* what the latest wrapper call gave back to its caller
    calls,          \* how many wrapper calls the caller has made
    walk,           \* the caller's view: "ConstructedClosed" | "Open" | "Closed"
    closed_once,    \* a close has taken this proxy from Open to Closed
    input,          \* the bit pattern an enumeration is decoded from
    n_dir           \* native: what get_dir_name will write and report

vars == <<file_manager, phase, n_open, n_files, n_next, files, log, ret, calls,
          walk, closed_once, input, n_dir>>

----------------------------------------------------------------------------
\* Bounds of the model.

\* wrapper calls per behaviour (Drop and the File drops are always allowed)
MaxCalls == 3
\* File wrappers per behaviour
MaxFiles == 2
\* bytes the native component writes into a name buffer
MaxWritten == 2
\* bytes a read or write asks for
MaxLen == 2

----------------------------------------------------------------------------
\* Program constants.

OBJECT_VERSION == 4103

\* Vec::with_capacity(255); set_len(255)
BufCap == 255

\* the size argument get_directory_name hands to get_dir_name
DirNameSize == 200

\* c_int, u32 and usize are 32 bits wide on the thiscall target.  A 32-bit
\* pattern is kept as the pair <<high half, low half>> of 16-bit halves; an
\* i32 is the integer it denotes.
Half == 2^16
SignHalf == 2^15
MinI32 == -2147483647 - 1

\* null_mut(), and the address the factory stores on success
NULL == 0
ObjAddr == 1

\* the bit pattern of an i32 (`x as u32`, `x as usize`)
WordOfI32(i) ==
    IF i >= 0 THEN <<i \div Half, i % Half>>
    ELSE LET j == i - MinI32 IN <<SignHalf + (j \div Half), j % Half>>

\* the i32 a bit pattern denotes (`x as i32`)
I32OfWord(w) ==
    IF w[1] >= SignHalf THEN MinI32 + ((w[1] - SignHalf) * Half + w[2])
    ELSE w[1] * Half + w[2]

Range(s) == {s[i] : i \in 1..Len(s)}

----------------------------------------------------------------------------
\* Enumerations.

AccessVariants == {"OpenExisting", "ShareRead", "CreateAlways"}
ModeVariants == {"CP", "CW"}

\* the declared discriminants 0, 0x80000000, 0x40000000, as bit patterns
AccessDiscriminant(a) ==
    CASE a = "OpenExisting" -> <<0, 0>>
      [] a = "ShareRead" -> <<32768, 0>>
      [] a = "CreateAlways" -> <<16384, 0>>

\* `access as i32`
AccessAsI32(a) == I32OfWord(AccessDiscriminant(a))

\* faulty variant: the two high-bit patterns are swapped
AccessFrom_swapped(mode) ==
    CASE mode = <<0, 0>> -> "OpenExisting"
      [] mode = <<32768, 0>> -> "CreateAlways"
      [] mode = <<16384, 0>> -> "ShareRead"
      [] OTHER -> "panic"

\* impl From<u32> for Access; "panic" stands for the panic! arm
AccessFrom(mode) ==
    CASE mode = <<0, 0>> -> "OpenExisting"
      [] mode = <<32768, 0>> -> "ShareRead"
      [] mode = <<16384, 0>> -> "CreateAlways"
      [] OTHER -> "panic"

\* `mode as i32`
ModeAsI32(m) == IF m = "CP" THEN 1 ELSE 2

\* impl From<i32> for Mode
ModeFrom(mode) ==
    CASE mode = 1 -> "CP"
      [] mode = 2 -> "CW"
      [] OTHER -> "panic"

----------------------------------------------------------------------------
\* Strings at the boundary.  A &str is a sequence of bytes.

\* the names and passwords a caller passes: plain, and with an interior NUL
Strs == {<<97>>, <<97, 0, 98>>}

HasNul(s) == 0 \in Range(s)

\* cstring!: CString::new(s).expect(..) appends the terminator, and panics
\* when s holds a NUL byte
cstring(s) == Append(s, 0)
cstring_panics(s) == HasNul(s)

----------------------------------------------------------------------------
\* The log of native calls and the caller-visible result.
\*   ctx: the wrapper code the call was issued from
\*   fn:  the dispatch-table slot (or the GFXDll* entry point)

Entry(ctx, fn, arg, res) == [ctx |-> ctx, fn |-> fn, arg |-> arg, res |-> res]
Ret(op, kind, val) == [op |-> op, kind |-> kind, val |-> val]
NoRet == Ret("none", "none", 0)

\* what the native component answers to create/open-container
NativeInts == {0, 1, -1}

\* the handle value the native component answers when an open fails
InvalidHandle == -1

\* the default reply of get_dir_name: nothing written, nothing reported
NoDir == [written |-> <<>>, len |-> 0, fill |-> 0]

----------------------------------------------------------------------------
\* Construction.  IFileManager::new_ptr: obj starts null; the factory either
\* stores the object's address or leaves obj untouched.

new_ptr(factory_ok) == IF factory_ok THEN ObjAddr ELSE NULL

\* GFXFileManager::new(mode) = new_with_version(mode, OBJECT_VERSION)
new_with_version(mode, version, factory_ok) ==
    /\ file_manager = new_ptr(factory_ok)
    /\ log = <<Entry("new_ptr", "GFXDllCreateObject", <<ModeAsI32(mode), version>>,
                     IF factory_ok THEN 1 ELSE 0)>>

InitBase ==
    /\ \E mode \in ModeVariants, factory_ok \in BOOLEAN :
          new_with_version(mode, OBJECT_VERSION, factory_ok)
    /\ phase = "live"
    /\ n_open = FALSE
    /\ n_files = {}
    /\ n_next = 1
    /\ files = <<>>
    /\ ret = NoRet
    /\ calls = 0
    /\ walk = "ConstructedClosed"
    /\ closed_once = FALSE

Init == InitBase /\ input = <<0, 0>> /\ n_dir = NoDir

----------------------------------------------------------------------------
\* How a wrapper call ends without reaching the native component.

\* cstring! (or a From impl) panicked: no native call, the thread unwinds
Panic(op, args) ==
    /\ phase' = "panicked"
    /\ ret' = Ret(op, "panic", args)
    /\ log' = <<>>
    /\ UNCHANGED <<file_manager, n_open, n_files, n_next, files, walk, closed_once, input, n_dir>>

\* vtable_call! read the vtable through a null object pointer: the load
\* faults and the process ends
Crash(op) ==
    /\ phase' = "crashed"
    /\ ret' = Ret(op, "crash", 0)
    /\ log' = <<>>
    /\ UNCHANGED <<file_manager, n_open, n_files, n_next, files, walk, closed_once, input, n_dir>>

\* the caller makes one more call on the live proxy
Call ==
    /\ phase = "live"
    /\ calls < MaxCalls
    /\ calls' = calls + 1

----------------------------------------------------------------------------
\* Container operations.

\* `... != 0` of create_container / open_container / close_container / is_open
\* faulty variants: only a positive answer, only the answer 1, counts as success
create_container_ret_positive(r) == r > 0
create_container_ret_one(r) == r = 1
create_container_ret(r) == r # 0
\* faulty variant: only the answer 1 counts as success
open_container_ret_one(r) == r = 1
open_container_ret(r) == r # 0
close_container_ret(r) == r # 0
is_open_ret(r) == r # 0

\* native create/open container: the container is open afterwards iff the
\* call answered nonzero; a rejected call leaves the state as it was
n_container(r) == IF r # 0 THEN TRUE ELSE n_open

\* native is_open and close_container
n_is_open == IF n_open THEN 1 ELSE 0
n_close_container == IF n_open THEN 1 ELSE 0

\* the caller's view after a create/open that returned b, and after a close
Opened(b) == IF b THEN "Open" ELSE walk
Closed == IF walk = "Open" THEN "Closed" ELSE walk

create_container(filename, password, r) ==
    /\ Call
    /\ IF cstring_panics(filename) \/ cstring_panics(password)
         THEN Panic("create_container", <<filename, password>>)
       ELSE IF file_manager = NULL
         THEN Crash("create_container")
       ELSE /\ n_open' = n_container(r)
            /\ log' = <<Entry("create_container", "create_container",
                              <<cstring(filename), cstring(password)>>, r)>>
            /\ ret' = Ret("create_container", "bool", create_container_ret(r))
            /\ walk' = Opened(create_container_ret(r))
            /\ UNCHANGED <<file_manager, phase, n_files, n_next, files, closed_once,
                           input, n_dir>>

open_container(filename, password, mode, r) ==
    /\ Call
    /\ IF cstring_panics(filename) \/ cstring_panics(password)
         THEN Panic("open_container", <<filename, password>>)
       ELSE IF file_manager = NULL
         THEN Crash("open_container")
       ELSE /\ n_open' = n_container(r)
            /\ log' = <<Entry("open_container", "open_container",
                              <<cstring(filename), cstring(password), mode>>, r)>>
            /\ ret' = Ret("open_container", "bool", open_container_ret(r))
            /\ walk' = Opened(open_container_ret(r))
            /\ UNCHANGED <<file_manager, phase, n_files, n_next, files, closed_once,
                           input, n_dir>>

\* close_container delegates at once: there is no is_open test in front
close_container_calls ==
    <<Entry("close_container", "close_container", <<>>, n_close_container)>>

close_container ==
    /\ Call
    /\ IF file_manager = NULL
         THEN Crash("close_container")
       ELSE /\ log' = close_container_calls
            /\ n_open' = (n_open /\ \A i \in 1..Len(log') : log'[i].fn # "close_container")
            /\ ret' = Ret("close_container", "bool", close_container_ret(n_close_container))
            /\ walk' = Closed
            /\ closed_once' = (closed_once \/ walk = "Open")
            /\ UNCHANGED <<file_manager, phase, n_files, n_next, files, input, n_dir>>

is_open ==
    /\ Call
    /\ IF file_manager = NULL
         THEN Crash("is_open")
       ELSE /\ log' = <<Entry("is_open", "is_open", <<>>, n_is_open)>>
            /\ ret' = Ret("is_open", "bool", is_open_ret(n_is_open))
            /\ UNCHANGED <<file_manager, phase, n_open, n_files, n_next, files, walk,
                           closed_once, input, n_dir>>

----------------------------------------------------------------------------
\* File handles.

\* gfxfile::File: the handle and the back-reference to the proxy; `closes`
\* counts the native close requests that reached this wrapper's handle
File_new(handle) == [handle |-> handle, st |-> "live", closes |-> 0]

Live(i) == files[i].st = "live"

\* native open/create of a file: a fresh handle, or the failure value
n_open_handle(ok) == IF ok THEN n_next ELSE InvalidHandle

\* native close_file: closes the handle if it is open
n_close_file(h) == IF h \in n_files THEN 1 ELSE 0

\* the body shared by open_file, open_file_cj, create_file, create_file_cj:
\* cstring!(filename), the dispatch, File::new(self, <native result>)
OpenHandle(fn, filename, rest, ok) ==
    /\ Call
    /\ Len(files) < MaxFiles
    /\ IF cstring_panics(filename)
         THEN Panic(fn, <<filename>>)
       ELSE IF file_manager = NULL
         THEN Crash(fn)
       ELSE /\ n_files' = IF ok THEN n_files \cup {n_next} ELSE n_files
            /\ n_next' = IF ok THEN n_next + 1 ELSE n_next
            /\ log' = <<Entry(fn, fn, <<cstring(filename)>> \o rest, n_open_handle(ok))>>
            /\ files' = Append(files, File_new(n_open_handle(ok)))
            /\ ret' = Ret(fn, "file", n_open_handle(ok))
            /\ UNCHANGED <<file_manager, phase, n_open, walk, closed_once, input, n_dir>>

open_file(filename, access, unknown, ok) ==
    /\ phase = "live"
    /\ OpenHandle("open_file", filename, <<AccessAsI32(access), unknown>>, ok)

open_file_cj(filename, access, unknown, ok) ==
    /\ phase = "live"
    /\ OpenHandle("open_file_cj", filename, <<AccessAsI32(access), unknown>>, ok)

create_file(filename, unknown, ok) ==
    /\ phase = "live"
    /\ OpenHandle("create_file", filename, <<unknown>>, ok)

create_file_cj(filename, unknown, ok) ==
    /\ phase = "live"
    /\ OpenHandle("create_file_cj", filename, <<unknown>>, ok)

\* faulty variant: the close is dispatched twice
close_file_twice(ctx, h) ==
    <<Entry(ctx, "close_file", <<h>>, n_close_file(h)), Entry(ctx, "close_file", <<h>>, 0)>>

\* GFXFileManager::close_file(file): the native calls it issues
close_file(ctx, h) == <<Entry(ctx, "close_file", <<h>>, n_close_file(h))>>

\* the close requests in a list of native calls that reach handle h, given
\* the handles open when the list starts
ClosesOf(l, h, open) ==
    Cardinality({k \in 1..Len(l) :
        \/ l[k].fn = "close_file" /\ l[k].arg = <<h>>
        \/ l[k].fn = "close_all_files" /\ h \in open
                                       /\ \A j \in 1..(k - 1) : l[j].fn # "close_file"
                                                                /\ l[j].fn # "close_all_files"})

\* impl Drop for File: the wrapper goes out of scope while the proxy it
\* borrows is still there (also while a panic unwinds)
File_drop(i) ==
    /\ phase \in {"live", "panicked"}
    /\ i \in 1..Len(files)
    /\ Live(i)
    /\ log' = close_file("File::drop", files[i].handle)
    /\ n_files' = n_files \ {files[i].handle}
    /\ files' = [files EXCEPT ![i].st = "dropped",
                              ![i].closes = @ + ClosesOf(log', files[i].handle, n_files)]
    /\ UNCHANGED <<file_manager, phase, n_open, n_next, ret, calls, walk, closed_once,
                   input, n_dir>>

\* the caller leaks the wrapper (std::mem::forget): its drop never runs
File_forget(i) ==
    /\ phase \in {"live", "panicked"}
    /\ i \in 1..Len(files)
    /\ Live(i)
    /\ files' = [files EXCEPT ![i].st = "leaked"]
    /\ UNCHANGED <<file_manager, phase, n_open, n_files, n_next, log, ret, calls, walk,
                   closed_once, input, n_dir>>

----------------------------------------------------------------------------
\* Teardown.

\* faulty variant: the container is closed before the file handles
Drop_calls_container_first(nf, no) ==
    LET l1 == <<Entry("Drop", "is_open", <<>>, IF no THEN 1 ELSE 0)>>
        l2 == IF is_open_ret(IF no THEN 1 ELSE 0)
                THEN Append(l1, Entry("Drop", "close_container", <<>>, IF no THEN 1 ELSE 0))
                ELSE l1
    IN  Append(l2, Entry("Drop", "close_all_files", <<>>, Cardinality(nf)))

\* impl Drop for GFXFileManager: the native calls it issues, in order, given
\* the open handles and the open flag.  The field is a raw pointer, so
\* nothing is run for the IFileManager it points to.
Drop_calls(nf, no) ==
    LET l1 == <<Entry("Drop", "close_all_files", <<>>, Cardinality(nf))>>
        l2 == Append(l1, Entry("Drop", "is_open", <<>>, IF no THEN 1 ELSE 0))
    IN  IF is_open_ret(IF no THEN 1 ELSE 0)
          THEN Append(l2, Entry("Drop", "close_container", <<>>, IF no THEN 1 ELSE 0))
          ELSE l2

\* The proxy is dropped once every File that borrows it is gone.
Drop ==
    /\ phase \in {"live", "panicked"}
    /\ \A i \in 1..Len(files) : ~Live(i)
    /\ UNCHANGED calls
    /\ IF file_manager = NULL
         THEN Crash("drop")
       ELSE /\ log' = Drop_calls(n_files, n_open)
            /\ n_files' = IF \E k \in 1..Len(log') : log'[k].fn = "close_all_files"
                            THEN {} ELSE n_files
            /\ n_open' = (n_open /\ \A k \in 1..Len(log') : log'[k].fn # "close_container")
            /\ files' = [i \in 1..Len(files) |->
                           [files[i] EXCEPT !.closes = @ + ClosesOf(log', files[i].handle, n_files)]]
            /\ phase' = "dropped"
            /\ walk' = Closed
            /\ closed_once' = (closed_once \/ walk = "Open")
            /\ UNCHANGED <<file_manager, n_next, ret, input, n_dir>>

----------------------------------------------------------------------------
\* The proxy's life: any sequence of calls, then the drop.

Next ==
    \/ \E f \in Strs, p \in Strs, r \in NativeInts : create_container(f, p, r)
    \/ \E f \in Strs, p \in Strs, r \in NativeInts : open_container(f, p, 0, r)
    \/ close_container
    \/ is_open
    \/ \E f \in Strs, a \in AccessVariants, ok \in BOOLEAN : open_file(f, a, 0, ok)
    \/ \E f \in Strs, a \in AccessVariants, ok \in BOOLEAN : open_file_cj(f, a, 0, ok)
    \/ \E f \in Strs, ok \in BOOLEAN : create_file(f, 0, ok)
    \/ \E f \in Strs, ok \in BOOLEAN : create_file_cj(f, 0, ok)
    \/ \E i \in 1..MaxFiles : File_drop(i)
    \/ \E i \in 1..MaxFiles : File_forget(i)
    \/ Drop

Spec == Init /\ [][Next]_vars

----------------------------------------------------------------------------
\* Teardown order and release (C1, C2).

Fns(l) == [k \in 1..Len(l) |-> l[k].fn]
CountFn(l, fn) == Cardinality({k \in 1..Len(l) : l[k].fn = fn})

\* C1: when the proxy has been dropped, the native calls the drop issued are
\* close_all_files, then is_open, then close_container, the last one present
\* exactly when is_open answered nonzero; no file-close call comes after the
\* container close.
C1_DropOrder ==
    phase = "dropped" =>
        /\ Len(log) \in {2, 3}
        /\ \A k \in 1..Len(log) : log[k].ctx = "Drop"
        /\ log[1].fn = "close_all_files"
        /\ log[2].fn = "is_open"
        /\ (Len(log) = 3) = (log[2].res # 0)
        /\ Len(log) = 3 => log[3].fn = "close_container"
        /\ \A j, k \in 1..Len(log) :
              (log[j].fn = "close_container" /\ k > j)
                 => log[k].fn \notin {"close_all_files", "close_file"}

\* an open container and an outstanding (leaked) handle at the drop
C1_Witness ==
    /\ phase = "dropped"
    /\ Fns(log) = <<"close_all_files", "is_open", "close_container">>
    /\ log[1].res >= 1

\* C2: once the proxy has been dropped, the object the factory returned has
\* been released by GFXDllReleaseObject exactly once, after the container
\* close; before the drop it has not been released.
C2_ReleasedOnceAtDrop ==
    /\ phase = "dropped" =>
          /\ CountFn(log, "GFXDllReleaseObject") = 1
          /\ log[Len(log)].fn = "GFXDllReleaseObject"
    /\ phase # "dropped" => CountFn(log, "GFXDllReleaseObject") = 0

----------------------------------------------------------------------------
\* The container walk (C3, C4, C5).

\* the latest operation was the wrapper call op, and it returned
Returned(op) ==
    /\ ret.op = op
    /\ ret.kind \notin {"panic", "crash", "none"}
    /\ log # <<>>
    /\ log[1].ctx = op

\* C3: a close_container on a proxy whose container is not open tests the
\* open state first and does not invoke the native close.
C3_CloseChecksOpenState ==
    [][(calls' = calls + 1 /\ ret'.op = "close_container" /\ ret'.kind = "bool" /\ ~n_open)
          => CountFn(log', "close_container") = 0]_vars

\* C4: is_open returns true exactly when the caller's walk is in Open: false
\* on a fresh proxy, true after a create/open that returned true, false
\* again after close_container.
C4_IsOpenFollowsWalk ==
    Returned("is_open") => ret.val = (walk = "Open")

\* is_open answered false after the walk went Open -> Closed
C4_Witness ==
    /\ Returned("is_open")
    /\ ret.val = FALSE
    /\ closed_once
    /\ walk = "Closed"

----------------------------------------------------------------------------
\* File handles are closed exactly once (C6).

\* C6: no File's handle is the target of more than one native close request;
\* a File that was dropped had close_file invoked for it exactly once, also
\* when its open had failed; once the proxy is dropped every handle the
\* native component issued has been closed exactly once, the leaked ones by
\* close_all_files.
C6_ClosedExactlyOnce ==
    \A i \in 1..Len(files) :
        /\ files[i].closes <= 1
        /\ files[i].st = "live" => files[i].closes = 0
        /\ files[i].st = "dropped" => files[i].closes = 1
        /\ (phase = "dropped" /\ files[i].handle # InvalidHandle) => files[i].closes = 1
        /\ (phase = "dropped" /\ files[i].handle # InvalidHandle) => files[i].handle \notin n_files

\* a dropped File, a leaked File and a File whose open failed, at the drop
C6_Witness ==
    /\ phase = "dropped"
    /\ \E i, j \in 1..Len(files) :
          /\ files[i].st = "dropped" /\ files[i].handle # InvalidHandle
          /\ files[j].st = "leaked" /\ files[j].handle # InvalidHandle
          /\ files[i].closes = 1 /\ files[j].closes = 1

----------------------------------------------------------------------------
\* Failure reporting of create_container / open_container (C9).

ContainerOps == {"create_container", "open_container"}

\* C9: create_container and open_container never panic, whatever strings
\* they are given.
C9_NeverPanics ==
    ~(ret.op \in ContainerOps /\ ret.kind = "panic")

\* C9 as amended: a call whose filename and password hold no NUL byte
\* returns a boolean that is true exactly when the native call answered
\* nonzero, and a false leaves the open state as it was; a call given a
\* string with an interior NUL byte panics before any native call is made.
C9_BoolUnlessNul ==
    /\ [](\A op \in ContainerOps :
            Returned(op) =>
               /\ ret.kind = "bool"
               /\ ret.val = (log[1].res # 0)
               /\ \A a \in {1, 2} : ~HasNul(SubSeq(log[1].arg[a], 1, Len(log[1].arg[a]) - 1)))
    /\ [][(calls' = calls + 1 /\ ret'.op \in ContainerOps) =>
             /\ (ret'.kind = "bool" /\ ret'.val = FALSE) => n_open' = n_open
             /\ ret'.kind = "panic" =>
                   /\ log' = <<>>
                   /\ n_open' = n_open
                   /\ \E a \in {1, 2} : HasNul(ret'.val[a])]_vars

\* a nonzero answer other than 1 came back as true
C9_Witness ==
    /\ Returned("create_container")
    /\ log[1].res = -1
    /\ ret.val = TRUE

----------------------------------------------------------------------------
\* The object pointer (C10).

\* C10: the object pointer held by the proxy is never null.
C10_PointerNonNull ==
    file_manager # NULL

----------------------------------------------------------------------------
\* Enumeration decoding, applied to an integer drawn at the start.

\* the bit patterns decoded: the supported ones, their neighbours,
\* 0x12345678, 0xC0000000 and 0xFFFFFFFF
EnumInputs ==
    {<<0, 0>>, <<0, 1>>, <<0, 2>>, <<0, 3>>, <<16384, 0>>, <<32768, 0>>, <<32768, 1>>,
     <<4660, 22136>>, <<49152, 0>>, <<65535, 65535>>}

InitEnum == InitBase /\ input \in EnumInputs /\ n_dir = NoDir

\* the caller decodes an access mode
DecodeAccess ==
    /\ Call
    /\ IF AccessFrom(input) = "panic"
         THEN Panic("Access::from", <<input>>)
       ELSE /\ ret' = Ret("Access::from", "variant", AccessFrom(input))
            /\ log' = <<>>
            /\ UNCHANGED <<file_manager, phase, n_open, n_files, n_next, files, walk,
                           closed_once, input, n_dir>>

\* the caller decodes a container mode
DecodeMode ==
    /\ Call
    /\ IF ModeFrom(I32OfWord(input)) = "panic"
         THEN Panic("Mode::from", <<input>>)
       ELSE /\ ret' = Ret("Mode::from", "variant", ModeFrom(I32OfWord(input)))
            /\ log' = <<>>
            /\ UNCHANGED <<file_manager, phase, n_open, n_files, n_next, files, walk,
                           closed_once, input, n_dir>>

\* GFXFileManager::mode: Mode::from(<what the native component answers>);
\* the native answer is the integer drawn at the start
mode ==
    /\ Call
    /\ IF file_manager = NULL
         THEN Crash("mode")
       ELSE IF ModeFrom(I32OfWord(input)) = "panic"
         THEN /\ phase' = "panicked"
              /\ ret' = Ret("mode", "panic", <<input>>)
              /\ log' = <<Entry("mode", "mode", <<>>, I32OfWord(input))>>
              /\ UNCHANGED <<file_manager, n_open, n_files, n_next, files, walk,
                             closed_once, input, n_dir>>
       ELSE /\ ret' = Ret("mode", "variant", ModeFrom(I32OfWord(input)))
            /\ log' = <<Entry("mode", "mode", <<>>, I32OfWord(input))>>
            /\ UNCHANGED <<file_manager, phase, n_open, n_files, n_next, files, walk,
                           closed_once, input, n_dir>>

\* the decoded access mode is handed on to open_file / open_file_cj
Decoded == ret.op = "Access::from" /\ ret.kind = "variant"

NextEnum ==
    \/ DecodeAccess
    \/ DecodeMode
    \/ mode
    \/ \E f \in Strs, ok \in BOOLEAN : Decoded /\ open_file(f, ret.val, 0, ok)
    \/ \E f \in Strs, ok \in BOOLEAN : Decoded /\ open_file_cj(f, ret.val, 0, ok)

SpecEnum == InitEnum /\ [][NextEnum]_vars

----------------------------------------------------------------------------
\* Enumeration decoding is exact (C7).

AccessWords == {<<0, 0>>, <<32768, 0>>, <<16384, 0>>}
ModeInts == {1, 2}

\* C7: a decoded Access converts back (`as i32`) to the bit pattern it was
\* decoded from, which is one of 0, 0x80000000, 0x40000000, and that pattern
\* is what open_file / open_file_cj hand to the native call; a decoded Mode
\* converts back to the integer it was decoded from, 1 or 2; every other
\* integer makes the decoding panic, in Access::from, Mode::from and mode().
C7_DecodingExact ==
    /\ (ret.op = "Access::from" /\ ret.kind = "variant") =>
          /\ input \in AccessWords
          /\ WordOfI32(AccessAsI32(ret.val)) = input
    /\ (ret.op = "Access::from" /\ ret.kind = "panic") => input \notin AccessWords
    /\ \A op \in {"open_file", "open_file_cj"} :
          Returned(op) => WordOfI32(log[1].arg[2]) = input
    /\ \A op \in {"Mode::from", "mode"} :
          /\ (ret.op = op /\ ret.kind = "variant") =>
                /\ I32OfWord(input) \in ModeInts
                /\ ModeAsI32(ret.val) = I32OfWord(input)
          /\ (ret.op = op /\ ret.kind = "panic") => I32OfWord(input) \notin ModeInts
    /\ ret.op \in {"Access::from", "Mode::from"} => ret.kind \in {"variant", "panic"}
    /\ ret.op = "mode" => ret.kind \in {"variant", "panic", "crash"}

\* 0x80000000 went through Access::from and reached the native open_file as
\* the negative i32 with the same bit pattern
C7_Witness ==
    /\ Returned("open_file")
    /\ input = <<32768, 0>>
    /\ log[1].arg[2] = MinI32

----------------------------------------------------------------------------
\* Name buffers.  The native component writes some bytes at the start of
\* the 255-byte buffer and reports a length; the rest of the buffer is what
\* set_len(255) exposed, uninitialised memory.

\* bytes: NUL, 'A', the two bytes of U+00E9, and 0xFF (never valid in UTF-8)
Bytes == {0, 65, 195, 169, 255}

\* what uninitialised memory may hold
FillBytes == {0, 65, 255}

\* the lengths the native call may report
DirLens == {-1, 0, 1, 2, 3, 254, 255, 256}

SeqsUpTo(S, n) == UNION {[1..k -> S] : k \in 0..n}

DirReplies ==
    [written : SeqsUpTo(Bytes, MaxWritten), len : DirLens, fill : FillBytes]

InitDir == InitBase /\ input = <<0, 0>> /\ n_dir \in DirReplies

\* the buffer after the native call
NativeBuf(reply) ==
    [k \in 1..BufCap |-> IF k <= Len(reply.written) THEN reply.written[k] ELSE reply.fill]

IsCont(b) == b >= 128 /\ b <= 191

\* the length of the UTF-8 sequence a lead byte b followed by c starts, or 0
\* when b cannot start one with c as its second byte
SeqLen(b, c) ==
    CASE b < 128 -> 1
      [] b >= 194 /\ b <= 223 -> 2
      [] b = 224 -> IF c >= 160 /\ c <= 191 THEN 3 ELSE 0
      [] (b >= 225 /\ b <= 236) \/ b = 238 \/ b = 239 -> 3
      [] b = 237 -> IF c >= 128 /\ c <= 159 THEN 3 ELSE 0
      [] b = 240 -> IF c >= 144 /\ c <= 191 THEN 4 ELSE 0
      [] b >= 241 /\ b <= 243 -> 4
      [] b = 244 -> IF c >= 128 /\ c <= 143 THEN 4 ELSE 0
      [] OTHER -> 0

\* core::str::from_utf8 accepts s: the first byte is no continuation byte,
\* and every other non-continuation byte starts a sequence that is followed
\* by exactly its continuation bytes
Utf8Valid(s) ==
    /\ Len(s) > 0 => ~IsCont(s[1])
    /\ \A i \in 1..Len(s) :
          IsCont(s[i]) \/
             LET n == SeqLen(s[i], IF i < Len(s) THEN s[i + 1] ELSE 0)
             IN  /\ n > 0
                 /\ i + n - 1 <= Len(s)
                 /\ \A k \in (i + 1)..(i + n - 1) : IsCont(s[k])
                 /\ i + n <= Len(s) => ~IsCont(s[i + n])

\* String::from_utf8(buf): Ok(the bytes) or Err
from_utf8(buf) ==
    IF Utf8Valid(buf) THEN [kind |-> "ok", val |-> buf] ELSE [kind |-> "err", val |-> buf]

\* Vec::truncate(n) for n given as a usize bit pattern: no effect when n is
\* not below the current length
truncate(buf, n) ==
    IF n[1] > 0 \/ n[2] >= Len(buf) THEN buf ELSE SubSeq(buf, 1, n[2])

\* buf.iter().position(|&x| x == 0): the 1-based index of the first NUL, or 0
position_nul(buf) ==
    IF \E k \in 1..Len(buf) : buf[k] = 0
      THEN CHOOSE k \in 1..Len(buf) : buf[k] = 0 /\ \A j \in 1..(k - 1) : buf[j] # 0
      ELSE 0

\* the tail of get_virtual_path: cut at the first NUL if there is one, decode
decode_at_nul(buf, len) ==
    from_utf8(IF position_nul(buf) # 0 THEN SubSeq(buf, 1, position_nul(buf) - 1) ELSE buf)

\* faulty variant: the reported length is ignored and the NUL is searched
decode_at_len_cut_at_nul(buf, len) ==
    from_utf8(IF position_nul(buf) # 0 THEN SubSeq(buf, 1, position_nul(buf) - 1) ELSE buf)

\* the tail of get_directory_name: buf.truncate(len as usize), decode
decode_at_len(buf, len) == from_utf8(truncate(buf, WordOfI32(len)))

get_directory_name ==
    /\ Call
    /\ IF file_manager = NULL
         THEN Crash("get_directory_name")
       ELSE /\ log' = <<Entry("get_directory_name", "get_dir_name", <<DirNameSize>>, n_dir.len)>>
            /\ ret' = Ret("get_directory_name", decode_at_len(NativeBuf(n_dir), n_dir.len).kind,
                          decode_at_len(NativeBuf(n_dir), n_dir.len).val)
            /\ UNCHANGED <<file_manager, phase, n_open, n_files, n_next, files, walk,
                           closed_once, input, n_dir>>

get_virtual_path ==
    /\ Call
    /\ IF file_manager = NULL
         THEN Crash("get_virtual_path")
       ELSE /\ log' = <<Entry("get_virtual_path", "get_virtual_path", <<>>, n_dir.len)>>
            /\ ret' = Ret("get_virtual_path", decode_at_nul(NativeBuf(n_dir), n_dir.len).kind,
                          decode_at_nul(NativeBuf(n_dir), n_dir.len).val)
            /\ UNCHANGED <<file_manager, phase, n_open, n_files, n_next, files, walk,
                           closed_once, input, n_dir>>

NextDir ==
    \/ get_directory_name
    \/ get_virtual_path

SpecDir == InitDir /\ [][NextDir]_vars

----------------------------------------------------------------------------
\* get_directory_name (C8).

\* the bytes in front of the first NUL of the buffer
BeforeNul(buf) ==
    IF position_nul(buf) # 0 THEN SubSeq(buf, 1, position_nul(buf) - 1) ELSE buf

\* C8: whatever the native call wrote and reported, get_directory_name
\* returns the bytes in front of the first NUL, decoded, when they are valid
\* UTF-8, returns Err when they are not, and does not panic.
C8_CutAtFirstNul ==
    Returned("get_directory_name") =>
        LET name == BeforeNul(NativeBuf(n_dir))
        IN  /\ ret.kind \in {"ok", "err"}
            /\ Utf8Valid(name) => (ret.kind = "ok" /\ ret.val = name)
            /\ ~Utf8Valid(name) => ret.kind = "err"

\* C8 as amended: get_directory_name returns the first n bytes of the
\* 255-byte buffer, n being the length the native call reported (the whole
\* buffer when that length is negative or above 255), wherever the first
\* NUL is: Ok when those bytes are valid UTF-8, Err when they are not; it
\* does not panic.
C8_CutAtReportedLength ==
    Returned("get_directory_name") =>
        LET buf == NativeBuf(n_dir)
            n == IF n_dir.len < 0 \/ n_dir.len > BufCap THEN BufCap ELSE n_dir.len
            name == [k \in 1..n |-> buf[k]]
        IN  /\ Len(buf) = BufCap
            /\ log[1].fn = "get_dir_name"
            /\ ret.kind \in {"ok", "err"}
            /\ ret.val = name
            /\ (ret.kind = "ok") = Utf8Valid(name)

\* the native call wrote "A", a NUL, and reported 2: the NUL is in the result
C8_Witness ==
    /\ Returned("get_directory_name")
    /\ n_dir.written = <<65, 0>>
    /\ n_dir.len = 2
    /\ ret.kind = "ok"
    /\ ret.val = <<65, 0>>

----------------------------------------------------------------------------
\* Reading and writing.  The native read/write answers a status and stores
\* the number of bytes it transferred through the bytes_read / bytes_written
\* pointer, which the wrapper hands on as it got it from its caller.

\* faulty variant: the requested length is stored as the count
transfer_result_requested(n, k, status) == [status |-> status, count |-> n]

\* read / write: the value returned is the dispatch's own result, the native
\* status; the count is whatever the native call stored through the pointer
transfer_result(n, k, status) == [status |-> status, count |-> k]

\* the body shared by read and write, on the File i, asking for n bytes;
\* the native call transfers k of them and answers status
Transfer(fn, i, n, k, status) ==
    /\ Call
    /\ i \in 1..Len(files)
    /\ Live(i)
    /\ k \in 0..n
    /\ IF file_manager = NULL
         THEN Crash(fn)
       ELSE /\ log' = <<Entry(fn, fn, <<files[i].handle, n>>, <<status, k>>)>>
            /\ ret' = Ret(fn, "transfer", transfer_result(n, k, status))
            /\ UNCHANGED <<file_manager, phase, n_open, n_files, n_next, files, walk,
                           closed_once, input, n_dir>>

read(i, bytes_to_read, k, status) ==
    /\ phase = "live"
    /\ Transfer("read", i, bytes_to_read, k, status)

write(i, bytes_to_write, k, status) ==
    /\ phase = "live"
    /\ Transfer("write", i, bytes_to_write, k, status)

NextIO ==
    \/ \E f \in Strs, a \in AccessVariants, ok \in BOOLEAN : open_file(f, a, 0, ok)
    \/ \E f \in Strs, ok \in BOOLEAN : create_file(f, 0, ok)
    \/ \E i \in 1..MaxFiles, n \in 0..MaxLen, k \in 0..MaxLen, st \in NativeInts :
          read(i, n, k, st)
    \/ \E i \in 1..MaxFiles, n \in 0..MaxLen, k \in 0..MaxLen, st \in NativeInts :
          write(i, n, k, st)

SpecIO == Init /\ [][NextIO]_vars

----------------------------------------------------------------------------
\* read and write report the transferred count (C11).

\* C11: for every requested length n and every count k in 0..n the native
\* call stored, the count read / write hand back to the caller is k, not n
\* and not the native status; a partial transfer is not made into an error:
\* the call neither panics nor alters the status the native call answered.
C11_CountIsTransferred ==
    \A op \in {"read", "write"} :
        Returned(op) =>
            /\ ret.kind = "transfer"
            /\ ret.val.count = log[1].res[2]
            /\ ret.val.count \in 0..log[1].arg[2]
            /\ ret.val.status = log[1].res[1]

\* a partial read: 2 bytes asked for, 1 transferred, status -1
C11_Witness ==
    /\ Returned("read")
    /\ log[1].arg[2] = 2
    /\ log[1].res = <<-1, 1>>
    /\ ret.val.count = 1

====
